---- MODULE Spec2Model ----
(***************************************************************************)
(* Signal synthesis engine of news-sentiment-trading:                      *)
(*   trading_logic/signal_generator.py  (TradingSignalGenerator)           *)
(*   app.py                             (TradingAnalysisService)           *)
(*                                                                         *)
(* Numbers.  Signal confidences are kept in thousandths (0.9 is 900), the  *)
(* thresholds and confidence_weight in tenths (2.0 is 20, 0.3 is 3), a     *)
(* row's classifier confidence in tenths, and every value the code does    *)
(* not round (percentages, the mean confidence) as an exact fraction       *)
(* <<numerator, denominator>>.  Times are counted in half days.            *)
(* round(x, 3) is exact except on a tie (x exactly half way between two    *)
(* thousandths), where the binary representation of x decides; the model   *)
(* leaves that direction open (tie_up), fixed for one run.                 *)
(***************************************************************************)
EXTENDS Integers, FiniteSets, Sequences, TLC

VARIABLES generator, df, now, tie_up, basic_signal, weighted_signal,
          time_weighted_signal, result, pc, fetch

vars == <<generator, df, now, tie_up, basic_signal, weighted_signal,
          time_weighted_signal, result, pc, fetch>>

----------------------------------------------------------------------------
(* Bounds of the model *)

\* rows of each label in a batch of one confidence and one publication time
MaxPerLabel == 3
\* rows of each label and publication time in a batch scored at several times
MaxPerDate == 2
\* items of a list or dictionary handed to convert_to_serializable
MaxItems == 2
\* the largest max_articles a caller of fetch_company_news asks for
MaxRequested == 201
\* the longest page the API answers with
MaxPageLen == 101
\* raw articles handed to clean_data
MaxRaw == 3
\* rows a batch collected row by row may hold
MaxArticles == 5
\* positive / negative rows of a batch given by its label counts
MaxPolar == 15
\* neutral rows of a batch given by its label counts ...
MaxNeutral == 5
\* ... and the neutral rows of a large batch
LargeBatch == 400

----------------------------------------------------------------------------
(* Data *)

LabelColumn == "combined_sentiment_label"
ConfidenceColumn == "combined_sentiment_confidence"
DateColumn == "published_at"
AllColumns == {LabelColumn, ConfidenceColumn, DateColumn}

Labels == {"positive", "negative", "neutral"}
\* classifier confidence of a row, in tenths
ConfLevels == {0, 9}

\* generate_time_weighted_signal(..., recent_days = 7)
RecentDaysDefault == 7
\* the current time (pd.Timestamp.now()), in half days
Now0 == 40
\* publication times in half days: 12 hours ago, and 8 days ago
PublishedAts == {Now0 - 1, Now0 - 2 * (RecentDaysDefault + 1)}

\* one row of the batch, up to the columns the scorers read
Kinds == [label : Labels, confidence : ConfLevels, published_at : PublishedAts]

EmptyRows == [k \in Kinds |-> 0]

\* TradingSignalGenerator.__init__ with its default arguments
DefaultGenerator ==
    [positive_threshold |-> 20, negative_threshold |-> 20,
     min_articles |-> 5, confidence_weight |-> 3]

\* other generators a caller constructs
OtherGenerators ==
    { [positive_threshold |-> 5, negative_threshold |-> 5,
       min_articles |-> 3, confidence_weight |-> 10],
      [positive_threshold |-> 30, negative_threshold |-> 15,
       min_articles |-> 2, confidence_weight |-> 0] }

Generators == {DefaultGenerator} \cup OtherGenerators

NoSignal == [signal |-> "NONE"]

\* no call of fetch_company_news is under way
NoFetch == [status |-> "idle"]

----------------------------------------------------------------------------
(* Arithmetic *)

RECURSIVE SumOver(_, _)
SumOver(S, f) ==
    IF S = {} THEN 0
    ELSE LET x == CHOOSE y \in S : TRUE
         IN  f[x] + SumOver(S \ {x}, f)

Min(a, b) == IF a <= b THEN a ELSE b
Max(a, b) == IF a >= b THEN a ELSE b
Abs(a) == IF a >= 0 THEN a ELSE -a

\* fractions <<n, d>> with d > 0
RatGT(a, b) == a[1] * b[2] > b[1] * a[2]

\* the sequences over S of at most n items
SeqsUpTo(S, n) == UNION {[1 .. k -> S] : k \in 0 .. n}

Round_Truncate(num, den, up) == num \div den

\* round(num / den) for den > 0; a tie goes up or down as `up` says
Round(num, den, up) ==
    LET q == num \div den
        r == num % den
    IN  IF 2 * r < den THEN q
        ELSE IF 2 * r > den THEN q + 1
        ELSE IF up THEN q + 1 ELSE q

----------------------------------------------------------------------------
(* The batch *)

\* len(df)
NumRows(d) == SumOver(Kinds, d.rows)

\* df[sentiment_column].value_counts().get(label, 0)
CountOf(d, label) ==
    SumOver({k \in Kinds : k.label = label}, d.rows)

\* df[df[sentiment_column] == label][confidence_column].sum(), in tenths
WeightOf(d, label) ==
    SumOver({k \in Kinds : k.label = label},
            [k \in Kinds |-> d.rows[k] * k.confidence])

----------------------------------------------------------------------------
(* generate_basic_signal *)

\* what a raised exception leaves the caller with
Raised(error) == [signal |-> "RAISED", error |-> error]

EmptyDetails == [key \in {} |-> 0]

InsufficientArticles_OffByOne(d, g) == NumRows(d) < g.min_articles - 1

\* if len(df) < self.min_articles
InsufficientArticles(d, g) == NumRows(d) < g.min_articles

InsufficientData ==
    [signal |-> "INSUFFICIENT_DATA", confidence |-> 0,
     reason |-> "insufficient_articles", details |-> EmptyDetails]

OnePolarityConfidence_Base600(count, total) ==
    IF 600 * total + 200 * count >= 900 * total
    THEN <<900, 1>>
    ELSE <<600 * total + 200 * count, total>>

\* min(0.9, 0.7 + (count / total_count) * 0.2), unrounded, in thousandths
OnePolarityConfidence(count, total) ==
    IF 700 * total + 200 * count >= 900 * total
    THEN <<900, 1>>
    ELSE <<700 * total + 200 * count, total>>

\* min(0.9, 0.6 + (ratio / threshold) * 0.3) for ratio = a / b, unrounded
RatioConfidence(a, b, threshold) ==
    IF 600 * b * threshold + 3000 * a >= 900 * b * threshold
    THEN <<900, 1>>
    ELSE <<600 * b * threshold + 3000 * a, b * threshold>>

MixedConfidence_Steep(p, n) == <<500 * n - 200 * Abs(p - n), n>>

\* 0.5 - abs(positive_ratio - 1.0) * 0.1, unrounded
MixedConfidence(p, n) == <<500 * n - 100 * Abs(p - n), n>>

AllNeutralConfidence_Default == <<500, 1>>

\* confidence = 0.4
AllNeutralConfidence == <<400, 1>>

\* positive_ratio >= self.positive_threshold, for positive_ratio = a / b
RatioAtLeast(a, b, threshold) == 10 * a >= threshold * b

\* the if / elif chain of generate_basic_signal: signal, reason and the
\* confidence before rounding
BasicDecision_SellFirst(p, n, t, g) ==
    IF n = 0 /\ p > 0 THEN
        [signal |-> "BUY", reason |-> "no_negative",
         confidence |-> OnePolarityConfidence(p, t)]
    ELSE IF p = 0 /\ n > 0 THEN
        [signal |-> "SELL", reason |-> "no_positive",
         confidence |-> OnePolarityConfidence(n, t)]
    ELSE IF p > 0 /\ n > 0 THEN
        IF RatioAtLeast(n, p, g.negative_threshold) THEN
            [signal |-> "SELL", reason |-> "negative_ratio",
             confidence |-> RatioConfidence(n, p, g.negative_threshold)]
        ELSE IF RatioAtLeast(p, n, g.positive_threshold) THEN
            [signal |-> "BUY", reason |-> "positive_ratio",
             confidence |-> RatioConfidence(p, n, g.positive_threshold)]
        ELSE
            [signal |-> "HOLD", reason |-> "mixed",
             confidence |-> MixedConfidence(p, n)]
    ELSE
        [signal |-> "HOLD", reason |-> "no_clear_direction",
         confidence |-> AllNeutralConfidence]

BasicDecision(p, n, t, g) ==
    IF n = 0 /\ p > 0 THEN
        [signal |-> "BUY", reason |-> "no_negative",
         confidence |-> OnePolarityConfidence(p, t)]
    ELSE IF p = 0 /\ n > 0 THEN
        [signal |-> "SELL", reason |-> "no_positive",
         confidence |-> OnePolarityConfidence(n, t)]
    ELSE IF p > 0 /\ n > 0 THEN
        IF RatioAtLeast(p, n, g.positive_threshold) THEN
            [signal |-> "BUY", reason |-> "positive_ratio",
             confidence |-> RatioConfidence(p, n, g.positive_threshold)]
        ELSE IF RatioAtLeast(n, p, g.negative_threshold) THEN
            [signal |-> "SELL", reason |-> "negative_ratio",
             confidence |-> RatioConfidence(n, p, g.negative_threshold)]
        ELSE
            [signal |-> "HOLD", reason |-> "mixed",
             confidence |-> MixedConfidence(p, n)]
    ELSE
        [signal |-> "HOLD", reason |-> "no_clear_direction",
         confidence |-> AllNeutralConfidence]

\* the details dictionary of generate_basic_signal
BasicDetails(p, n, u, t) ==
    [total_articles |-> t,
     positive_count |-> p,
     negative_count |-> n,
     neutral_count |-> u,
     positive_percentage |-> <<100 * p, t>>,
     negative_percentage |-> <<100 * n, t>>,
     neutral_percentage |-> <<100 * u, t>>,
     positive_to_negative_ratio |-> <<p, Max(n, 1)>>,
     negative_to_positive_ratio |-> <<n, Max(p, 1)>>,
     sentiment_column_used |-> LabelColumn]

\* generate_basic_signal(df) at time t0, ties rounded as `up` says
BasicSignal(d, g, t0, up) ==
    IF LabelColumn \notin d.columns THEN Raised("ValueError")
    ELSE IF InsufficientArticles(d, g) THEN InsufficientData
    ELSE
        LET p == CountOf(d, "positive")
            n == CountOf(d, "negative")
            u == CountOf(d, "neutral")
            t == NumRows(d)
            dec == BasicDecision(p, n, t, g)
        IN  [signal |-> dec.signal,
             confidence |-> Round(dec.confidence[1], dec.confidence[2], up),
             reason |-> dec.reason,
             details |-> BasicDetails(p, n, u, t),
             timestamp |-> t0]

----------------------------------------------------------------------------
(* generate_weighted_signal *)

BumpConfidence_LowCap(confidence, bump) == Min(500, confidence + bump)

BumpConfidence_NoCap(confidence, bump) == confidence + bump

\* min(0.95, confidence + bump), in thousandths
BumpConfidence(confidence, bump) == Min(950, confidence + bump)

\* self.confidence_weight * 0.2, in thousandths
WeightedBump(g) == g.confidence_weight * 20

\* (weight / total_weight) * 100
Percentage(weight, total) == <<100 * weight, total>>

\* pct_a > pct_b * threshold
ExceedsTimes(a, b, threshold) == RatGT(<<10 * a[1], a[2]>>, <<b[1] * threshold, b[2]>>)

WeightedDecision_OnlyFromHold(basic, pos_pct, neg_pct, g) ==
    IF basic.signal = "HOLD"
       /\ RatGT(<<10 * pos_pct[1], pos_pct[2]>>,
                <<neg_pct[1] * g.positive_threshold, neg_pct[2]>>) THEN
        [signal |-> "BUY", reason |-> "weighted_buy",
         confidence |-> Min(950, basic.confidence + g.confidence_weight * 20)]
    ELSE IF basic.signal = "HOLD"
            /\ RatGT(<<10 * neg_pct[1], neg_pct[2]>>,
                     <<pos_pct[1] * g.negative_threshold, pos_pct[2]>>) THEN
        [signal |-> "SELL", reason |-> "weighted_sell",
         confidence |-> Min(950, basic.confidence + g.confidence_weight * 20)]
    ELSE
        [signal |-> basic.signal, reason |-> basic.reason,
         confidence |-> basic.confidence]

WeightedDecision_BumpOnChange(basic, pos_pct, neg_pct, g) ==
    IF RatGT(<<10 * pos_pct[1], pos_pct[2]>>,
             <<neg_pct[1] * g.positive_threshold, neg_pct[2]>>) THEN
        IF basic.signal # "BUY" THEN
            [signal |-> "BUY", reason |-> "weighted_buy",
             confidence |-> Min(950, basic.confidence + g.confidence_weight * 20)]
        ELSE [signal |-> basic.signal, reason |-> basic.reason,
              confidence |-> basic.confidence]
    ELSE IF RatGT(<<10 * neg_pct[1], neg_pct[2]>>,
                  <<pos_pct[1] * g.negative_threshold, pos_pct[2]>>) THEN
        IF basic.signal # "SELL" THEN
            [signal |-> "SELL", reason |-> "weighted_sell",
             confidence |-> Min(950, basic.confidence + g.confidence_weight * 20)]
        ELSE [signal |-> basic.signal, reason |-> basic.reason,
              confidence |-> basic.confidence]
    ELSE
        [signal |-> basic.signal, reason |-> basic.reason,
         confidence |-> basic.confidence]

WeightedDecision_HoldOtherwise(basic, pos_pct, neg_pct, g) ==
    IF RatGT(<<10 * pos_pct[1], pos_pct[2]>>,
             <<neg_pct[1] * g.positive_threshold, neg_pct[2]>>) THEN
        [signal |-> "BUY",
         reason |-> IF basic.signal # "BUY" THEN "weighted_buy" ELSE basic.reason,
         confidence |-> Min(950, basic.confidence + g.confidence_weight * 20)]
    ELSE IF RatGT(<<10 * neg_pct[1], neg_pct[2]>>,
                  <<pos_pct[1] * g.negative_threshold, pos_pct[2]>>) THEN
        [signal |-> "SELL",
         reason |-> IF basic.signal # "SELL" THEN "weighted_sell" ELSE basic.reason,
         confidence |-> Min(950, basic.confidence + g.confidence_weight * 20)]
    ELSE
        [signal |-> "HOLD", reason |-> basic.reason,
         confidence |-> basic.confidence]

\* the if / elif of generate_weighted_signal on the weighted percentages:
\* signal, confidence before rounding and reason
WeightedDecision(basic, pos_pct, neg_pct, g) ==
    IF ExceedsTimes(pos_pct, neg_pct, g.positive_threshold) THEN
        [signal |-> "BUY",
         reason |-> IF basic.signal # "BUY" THEN "weighted_buy" ELSE basic.reason,
         confidence |-> BumpConfidence(basic.confidence, WeightedBump(g))]
    ELSE IF ExceedsTimes(neg_pct, pos_pct, g.negative_threshold) THEN
        [signal |-> "SELL",
         reason |-> IF basic.signal # "SELL" THEN "weighted_sell" ELSE basic.reason,
         confidence |-> BumpConfidence(basic.confidence, WeightedBump(g))]
    ELSE
        [signal |-> basic.signal, reason |-> basic.reason,
         confidence |-> basic.confidence]

ExtendDetails_Replace(base_details, added) == added

\* enhanced_details = base['details'].copy(); enhanced_details.update(added)
ExtendDetails(base_details, added) == added @@ base_details

\* the keys generate_weighted_signal adds to the details
WeightedDetails(pos_pct, neg_pct, neu_pct, total_weight) ==
    [weighted_positive_percentage |-> pos_pct,
     weighted_negative_percentage |-> neg_pct,
     weighted_neutral_percentage |-> neu_pct,
     confidence_column_used |-> ConfidenceColumn,
     total_confidence_weight |-> total_weight]

WeightedSignal_MarksFallback(d, g, t0, up) ==
    LET basic == BasicSignal(d, g, t0, up)
    IN  IF basic.signal = "RAISED" THEN basic
        ELSE [basic EXCEPT !.reason = "weighted_fallback"]

\* generate_weighted_signal(df) at time t0
WeightedSignal(d, g, t0, up) ==
    IF ConfidenceColumn \notin d.columns THEN BasicSignal(d, g, t0, up)
    ELSE
        LET basic == BasicSignal(d, g, t0, up)
            positive_weight == WeightOf(d, "positive")
            negative_weight == WeightOf(d, "negative")
            neutral_weight == WeightOf(d, "neutral")
            total_weight == positive_weight + negative_weight + neutral_weight
            pos_pct == Percentage(positive_weight, total_weight)
            neg_pct == Percentage(negative_weight, total_weight)
            neu_pct == Percentage(neutral_weight, total_weight)
            dec == WeightedDecision(basic, pos_pct, neg_pct, g)
        IN  IF basic.signal = "RAISED" THEN basic
            ELSE IF basic.signal = "INSUFFICIENT_DATA" THEN basic
            ELSE IF total_weight = 0 THEN basic
            ELSE [signal |-> dec.signal,
                  \* round(confidence, 3) of a whole number of thousandths
                  confidence |-> dec.confidence,
                  reason |-> dec.reason,
                  details |-> ExtendDetails(basic.details,
                                 WeightedDetails(pos_pct, neg_pct, neu_pct,
                                                 total_weight)),
                  timestamp |-> t0]

----------------------------------------------------------------------------
(* generate_time_weighted_signal *)

NormalizesDatetimes_Coerce(d) == TRUE

\* _normalize_datetime_columns: pd.to_datetime accepts the column's values
NormalizesDatetimes(d) == d.date_values = "datetime"

DaysAgo_Distance(k, t0) == Abs(t0 - k.published_at) \div 2

\* the columns the scorer adds: df_copy['days_ago'], df_copy['time_weight']
TimeWeightColumns == {"days_ago", "time_weight"}

\* df_copy once the scorer has written its columns to it
TimeWeightedCopy(d) ==
    IF DateColumn \in d.columns /\ NormalizesDatetimes(d)
    THEN [d EXCEPT !.columns = @ \cup TimeWeightColumns]
    ELSE d

CallerBatch_InPlace(d, df_copy) == df_copy

\* df_copy = df.copy(): the caller's DataFrame after the scorer has written
\* to df_copy
CallerBatch(d, df_copy) == d

\* (current_time - published_at).dt.days, clipped below at 0
DaysAgo(k, t0) == Max(0, (t0 - k.published_at) \div 2)

TimeWeight_Strict(k, t0, recent_days) ==
    IF Max(0, (t0 - k.published_at) \div 2) < recent_days THEN 2 ELSE 1

\* np.where(days_ago <= recent_days, 2.0, 1.0)
TimeWeight(k, t0, recent_days) ==
    IF DaysAgo(k, t0) <= recent_days THEN 2 ELSE 1

\* df_copy[df_copy[sentiment_column] == label]['time_weight'].sum()
TimeWeightOf(d, label, t0, recent_days) ==
    SumOver({k \in Kinds : k.label = label},
            [k \in Kinds |-> d.rows[k] * TimeWeight(k, t0, recent_days)])

\* len(df_copy[df_copy['days_ago'] <= recent_days])
RecentArticles(d, t0, recent_days) ==
    SumOver({k \in Kinds : DaysAgo(k, t0) <= recent_days}, d.rows)

\* time_weighted_a > time_weighted_b * threshold, on the sums themselves
SumExceedsTimes(a, b, threshold) == 10 * a > b * threshold

TimeWeightedDecision_WeightedBump(base, tw_pos, tw_neg, g) ==
    IF 10 * tw_pos > tw_neg * g.positive_threshold THEN
        [signal |-> "BUY", reason |-> "time_weighted_buy",
         confidence |-> Min(950, base.confidence + g.confidence_weight * 20)]
    ELSE IF 10 * tw_neg > tw_pos * g.negative_threshold THEN
        [signal |-> "SELL", reason |-> "time_weighted_sell",
         confidence |-> Min(950, base.confidence + g.confidence_weight * 20)]
    ELSE
        [signal |-> base.signal, reason |-> base.reason,
         confidence |-> base.confidence]

\* the if / elif of generate_time_weighted_signal on the time-weighted sums
TimeWeightedDecision(base, tw_pos, tw_neg, g) ==
    IF SumExceedsTimes(tw_pos, tw_neg, g.positive_threshold) THEN
        [signal |-> "BUY", reason |-> "time_weighted_buy",
         confidence |-> BumpConfidence(base.confidence, 100)]
    ELSE IF SumExceedsTimes(tw_neg, tw_pos, g.negative_threshold) THEN
        [signal |-> "SELL", reason |-> "time_weighted_sell",
         confidence |-> BumpConfidence(base.confidence, 100)]
    ELSE
        [signal |-> base.signal, reason |-> base.reason,
         confidence |-> base.confidence]

\* the keys generate_time_weighted_signal adds to the details
TimeWeightedDetails(d, tw_pos, tw_neg, total, t0, recent_days) ==
    [time_weighted_positive_percentage |-> Percentage(tw_pos, total),
     time_weighted_negative_percentage |-> Percentage(tw_neg, total),
     recent_days_threshold |-> recent_days,
     articles_in_recent_period |-> RecentArticles(d, t0, recent_days)]

\* generate_time_weighted_signal(df, recent_days = recent_days) at time t0
TimeWeightedSignal(d, g, t0, up, recent_days) ==
    IF DateColumn \notin d.columns THEN WeightedSignal(d, g, t0, up)
    \* except Exception: fall back to the weighted signal
    ELSE IF ~NormalizesDatetimes(d) THEN WeightedSignal(d, g, t0, up)
    ELSE IF LabelColumn \notin d.columns THEN Raised("KeyError")
    ELSE
        LET tw_pos == TimeWeightOf(d, "positive", t0, recent_days)
            tw_neg == TimeWeightOf(d, "negative", t0, recent_days)
            tw_neu == TimeWeightOf(d, "neutral", t0, recent_days)
            total == tw_pos + tw_neg + tw_neu
            base == WeightedSignal(d, g, t0, up)
            dec == TimeWeightedDecision(base, tw_pos, tw_neg, g)
        IN  IF base.signal = "RAISED" THEN base
            ELSE IF total = 0 THEN base
            ELSE [signal |-> dec.signal,
                  confidence |-> dec.confidence,
                  reason |-> dec.reason,
                  details |-> ExtendDetails(base.details,
                                 TimeWeightedDetails(d, tw_pos, tw_neg, total,
                                                     t0, recent_days)),
                  timestamp |-> t0]

----------------------------------------------------------------------------
(* NewsAPIFetcher (data_fetcher/news_api.py) *)

\* a field the API left out or sent as null
Missing == "<missing>"

\* the texts of the model's articles; the company searched is Apple
\* (titles "Apple up", "Apple up ", "Apple down", "[Removed]", "  ",
\* "Markets fall"; descriptions "Apple gains", "[Removed]", "stocks slide")

\* str.strip().str.replace('\n', ' ').str.replace('\r', ' ') on the texts
\* above: only the padded title and the blank one change
Normalize(text) ==
    CASE text = "Apple up " -> "Apple up"
      [] text = "  " -> ""
      [] OTHER -> text

\* str.strip()
Strip(text) == Normalize(text)

\* a company keyword (apple) occurs in the lowered text
HasKeyword(text) ==
    text \in {"Apple up", "Apple up ", "Apple down", "Apple gains"}

\* publishedAt as the API sends it: a date pd.to_datetime parses, or not
ParseableDate == "2024-05-01T10:00:00Z"
MalformedDate == "not a date"

\* title and description of the raw articles handed to clean_data
ArticleTexts ==
    { <<"Apple up", "Apple gains">>,
      <<"Apple up ", "Apple gains">>,
      <<"Apple down", "[Removed]">>,
      <<"Apple down", Missing>>,
      <<"[Removed]", "[Removed]">>,
      <<"  ", "Apple gains">>,
      <<Missing, "Apple gains">>,
      <<"Markets fall", "stocks slide">> }

\* article_data (lines 77-87), up to the fields clean_data reads
Article(title, description, published_at) ==
    [title |-> title, description |-> description,
     published_at |-> published_at]

\* raw articles whose dates parse
ArticleKinds == {Article(t[1], t[2], ParseableDate) : t \in ArticleTexts}

\* an item of data['articles'] that is not a dictionary (null)
NotADict == [kind |-> "null"]

\* the items the pages of the model's API hold
PageItems ==
    { Article("Apple up", "Apple gains", ParseableDate),
      Article("[Removed]", "[Removed]", ParseableDate),
      Article("Apple down", "Apple gains", MalformedDate),
      NotADict }

\* the rows of s at the indices in keep, in order
Rows(s, keep) ==
    IF keep = DOMAIN s THEN s
    ELSE [r \in 1 .. Cardinality(keep) |->
             s[CHOOSE i \in keep : Cardinality({j \in keep : j <= i}) = r]]

\* df.dropna(subset=['title', 'description']) and the rows whose stripped
\* title and description are not empty
DropMissing(s) ==
    Rows(s, {i \in DOMAIN s :
                /\ s[i].title # Missing
                /\ s[i].description # Missing
                /\ Strip(s[i].title) # ""
                /\ Strip(s[i].description) # ""})

\* drop_duplicates(subset=['title', 'url']) then
\* drop_duplicates(subset=['title']), both keep='first': the first row of
\* each title stays
DropDuplicates(s) ==
    Rows(s, {i \in DOMAIN s :
                \A j \in 1 .. i - 1 : s[j].title # s[i].title})

\* the title and description with whitespace stripped and newlines replaced
CleanText(s) ==
    [i \in DOMAIN s |->
        [s[i] EXCEPT !.title = Normalize(@), !.description = Normalize(@)]]

\* the rows whose title and description are not '[Removed]'
DropRemoved(s) ==
    Rows(s, {i \in DOMAIN s :
                s[i].title # "[Removed]" /\ s[i].description # "[Removed]"})

\* df_cleaned[df_cleaned.apply(is_relevant, axis=1)]
KeepRelevant(s) ==
    Rows(s, {i \in DOMAIN s :
                HasKeyword(s[i].title) \/ HasKeyword(s[i].description)})

\* clean_data before its relevance filter (lines 174-225)
Cleaned(s) == DropRemoved(CleanText(DropDuplicates(DropMissing(s))))

\* clean_data(df) for a non-empty df: the cleaned rows (up to their order),
\* or the IndexError of df_cleaned['company_searched'].iloc[0] when the
\* steps before the relevance filter left no row
clean_data(s) ==
    IF Cleaned(s) = <<>>
    THEN [status |-> "raised", error |-> "IndexError", returned |-> <<>>]
    ELSE [status |-> "returned", error |-> "none",
          returned |-> KeepRelevant(Cleaned(s))]

\* lines 105-120: the DataFrame of the collected articles, dates converted
\* (outside any try), cleaned
ToDataFrame(articles_data) ==
    IF articles_data = <<>>
    THEN [status |-> "returned", error |-> "none", returned |-> <<>>]
    ELSE IF \E i \in DOMAIN articles_data :
                articles_data[i].published_at = MalformedDate
    THEN [status |-> "raised", error |-> "ValueError", returned |-> <<>>]
    ELSE clean_data(articles_data)

\* 'pageSize': min(100, max_articles)
PageSizeLimit == 100

\* max_articles of the callers: none or fewer, one, the 30 of
\* run_complete_analysis, one full page, several pages
RequestedArticles == {-1, 0, 1, 30, PageSizeLimit, MaxRequested}

\* lengths of the pages the API answers with: empty, short, full, too long
PageLengths == {0, 1, PageSizeLimit - 1, PageSizeLimit, MaxPageLen}

\* what the API answers with totalResults (0 when the key is missing)
TotalResults == {0, 2 * PageSizeLimit, 10 * PageSizeLimit}

\* the answers to one request: the request fails (RequestException), the
\* API reports an error, or a page arrives: `length` items like `item`,
\* the one at bad_at (if any) not a dictionary
Responses ==
    [kind : {"request_error", "api_error"}, length : {0},
     item : {NotADict}, bad_at : {0}, total_results : {0}]
    \cup [kind : {"page"}, length : PageLengths,
          item : PageItems \ {NotADict}, bad_at : {0, 1, 2},
          total_results : TotalResults]

\* data['articles'] of a page
PageOf(response) ==
    [i \in 1 .. response.length |->
        IF i = response.bad_at THEN NotADict ELSE response.item]

\* fetch_company_news at its while test, nothing fetched yet
StartFetch(max_articles) ==
    [status |-> "loop", max_articles |-> max_articles,
     page_size |-> Min(PageSizeLimit, max_articles), page |-> 1,
     articles_fetched |-> 0, articles_data |-> <<>>,
     error |-> "none", returned |-> <<>>]

Iteration_WholePage(f, response) ==
    LET articles == PageOf(response)
        collected ==
            [f EXCEPT !.articles_fetched = @ + Len(articles),
                      !.articles_data = @ \o articles]
    IN  IF response.kind # "page" \/ articles = <<>>
           \/ \E i \in DOMAIN articles : articles[i] = NotADict
        THEN [f EXCEPT !.status = "fetched"]
        ELSE IF collected.articles_fetched >= response.total_results
                \/ Len(articles) < f.page_size
        THEN [collected EXCEPT !.status = "fetched"]
        ELSE [collected EXCEPT !.page = @ + 1]

Iteration_SkipsEmptyPage(f, response) ==
    IF response.kind # "page" THEN [f EXCEPT !.status = "fetched"]
    ELSE [f EXCEPT !.page = @ + 1,
                   !.articles_fetched =
                       Min(f.max_articles, @ + response.length),
                   !.articles_data =
                       @ \o [i \in 1 .. Min(f.max_articles - f.articles_fetched,
                                            response.length) |->
                                response.item]]

\* one iteration of the while loop (lines 55-98) on the given response
Iteration(f, response) ==
    LET articles == PageOf(response)
        room == f.max_articles - f.articles_fetched
        reach == Min(room, Len(articles))
        bad == {i \in 1 .. reach : articles[i] = NotADict}
        taken == IF bad = {} THEN reach
                 ELSE (CHOOSE i \in bad : \A j \in bad : i <= j) - 1
        collected ==
            [f EXCEPT !.articles_fetched = @ + taken,
                      !.articles_data = @ \o SubSeq(articles, 1, taken)]
    IN  IF response.kind # "page" \/ articles = <<>>
        THEN [f EXCEPT !.status = "fetched"]
        ELSE IF bad # {}
        THEN [collected EXCEPT !.status = "fetched"]
        ELSE IF collected.articles_fetched >= response.total_results
                \/ Len(articles) < f.page_size
        THEN [collected EXCEPT !.status = "fetched"]
        ELSE [collected EXCEPT !.page = @ + 1]

----------------------------------------------------------------------------
(* TradingAnalysisService.run_complete_analysis (app.py) *)

Caught_ValueErrorOnly(error) ==
    IF error = "ValueError"
    THEN [success |-> FALSE, error |-> "exception", signal |-> "ERROR",
          confidence |-> <<0, 1>>]
    ELSE [success |-> FALSE, error |-> error, signal |-> "ESCAPED",
          confidence |-> <<0, 1>>]

NoResult == [success |-> "NONE"]

\* the result returned when df.empty
NoDataResult ==
    [success |-> FALSE, error |-> "no_articles", signal |-> "NO_DATA",
     confidence |-> <<0, 1>>]

\* the result of the except branch
ErrorResult ==
    [success |-> FALSE, error |-> "exception", signal |-> "ERROR",
     confidence |-> <<0, 1>>]

\* except Exception as e: return the ERROR result
Caught(error) == ErrorResult

\* exceptions the components raise: NewsAPIFetcher() without an API key
\* (ValueError), clean_data on a batch it has emptied (IndexError)
ComponentErrors == {"ValueError", "IndexError"}

\* values of a result before conversion: numpy and plain numbers, NaN or
\* not, None, pandas' NaT, strings
NumpyInts == {[type |-> "np.int64", nan |-> FALSE]}
NumpyFloats == [type : {"np.float64", "np.float32"}, nan : BOOLEAN]
PlainScalars ==
    [type : {"float"}, nan : BOOLEAN]
    \cup [type : {"int", "str", "None", "NaT"}, nan : {FALSE}]
Scalars == NumpyInts \cup NumpyFloats \cup PlainScalars

\* pd.isna(obj) on a scalar
IsNa(obj) == obj.type \in {"None", "NaT"} \/ obj.nan

\* int(obj), float(obj): the plain number of the same value
ToPlain(obj) ==
    IF obj \in NumpyInts THEN [type |-> "int", nan |-> FALSE]
    ELSE IF obj \in NumpyFloats THEN [type |-> "float", nan |-> obj.nan]
    ELSE obj

\* convert_to_serializable(obj)
RECURSIVE convert_to_serializable(_)
convert_to_serializable(obj) ==
    IF obj \in NumpyInts THEN ToPlain(obj)
    ELSE IF obj \in NumpyFloats THEN ToPlain(obj)
    ELSE IF obj.type = "ndarray"
    THEN [type |-> "list",
          items |-> [i \in DOMAIN obj.items |-> ToPlain(obj.items[i])]]
    ELSE IF obj.type \in {"dict", "list"}
    THEN [type |-> obj.type,
          items |-> [i \in DOMAIN obj.items |->
                        convert_to_serializable(obj.items[i])]]
    ELSE IF IsNa(obj) THEN [type |-> "None", nan |-> FALSE]
    ELSE obj

\* signals.count(s)
Votes(signals, s) == Cardinality({i \in DOMAIN signals : signals[i] = s})

ConsensusSignal_Propagate(signals) ==
    IF Votes(signals, "BUY") >= 2 THEN "BUY"
    ELSE IF Votes(signals, "SELL") >= 2 THEN "SELL"
    ELSE IF Votes(signals, "INSUFFICIENT_DATA") >= 2 THEN "INSUFFICIENT_DATA"
    ELSE "HOLD"

ConsensusSignal_SellFirst(signals) ==
    IF Votes(signals, "SELL") >= 1 THEN "SELL"
    ELSE IF Votes(signals, "BUY") >= 2 THEN "BUY"
    ELSE "HOLD"

\* the consensus vote of run_complete_analysis
ConsensusSignal(signals) ==
    IF Votes(signals, "BUY") >= 2 THEN "BUY"
    ELSE IF Votes(signals, "SELL") >= 2 THEN "SELL"
    ELSE "HOLD"

AverageConfidence_Rounded(b, w, t) == <<(b + w + t) \div 3, 1>>

\* avg_confidence, in thousandths, not rounded
AverageConfidence(b, w, t) == <<b + w + t, 3>>

\* the result dictionary of run_complete_analysis
AnalysisResult(d, b, w, t) ==
    IF "RAISED" \in {b.signal, w.signal, t.signal} THEN ErrorResult
    ELSE
        [success |-> TRUE,
         signal |-> ConsensusSignal(<<b.signal, w.signal, t.signal>>),
         confidence |-> AverageConfidence(b.confidence, w.confidence, t.confidence),
         total_articles |-> NumRows(d),
         sentiment_breakdown |->
             [positive_count |-> CountOf(d, "positive"),
              negative_count |-> CountOf(d, "negative"),
              neutral_count |-> CountOf(d, "neutral")],
         signal_details |->
             [basic_signal |-> b.signal,
              weighted_signal |-> w.signal,
              time_weighted_signal |-> t.signal,
              basic_confidence |-> b.confidence,
              weighted_confidence |-> w.confidence,
              time_weighted_confidence |-> t.confidence],
         reasoning |-> w.reason]

----------------------------------------------------------------------------
(* The state machine *)

\* the service's generator, an empty batch, nothing computed yet
Init ==
    /\ fetch = NoFetch
    /\ generator = DefaultGenerator
    /\ df = [rows |-> EmptyRows, columns |-> AllColumns,
          date_values |-> "datetime"]
    /\ now = Now0
    /\ tie_up \in BOOLEAN
    /\ basic_signal = NoSignal
    /\ weighted_signal = NoSignal
    /\ time_weighted_signal = NoSignal
    /\ result = NoResult
    /\ pc = "collect"

\* any generator a caller constructs
InitScorers ==
    /\ fetch = NoFetch
    /\ generator \in Generators
    /\ df = [rows |-> EmptyRows, columns |-> AllColumns,
          date_values |-> "datetime"]
    /\ now = Now0
    /\ tie_up \in BOOLEAN
    /\ basic_signal = NoSignal
    /\ weighted_signal = NoSignal
    /\ time_weighted_signal = NoSignal
    /\ result = NoResult
    /\ pc = "collect"

\* the labelled batch with p positive, n negative and u neutral rows
LabelledRows(p, n, u) ==
    LET c == CHOOSE x \in ConfLevels : \A y \in ConfLevels : x >= y
        a == CHOOSE x \in PublishedAts : \A y \in PublishedAts : x >= y
    IN  [k \in Kinds |->
            IF k.confidence = c /\ k.published_at = a
            THEN CASE k.label = "positive" -> p
                   [] k.label = "negative" -> n
                   [] OTHER -> u
            ELSE 0]

NeutralCounts == (0 .. MaxNeutral) \cup {LargeBatch, LargeBatch + 1}

\* a batch given by its label counts, as create_test_scenarios builds them
InitBasic ==
    /\ fetch = NoFetch
    /\ generator \in Generators
    /\ \E p \in 0 .. MaxPolar, n \in 0 .. MaxPolar, u \in NeutralCounts :
           df = [rows |-> LabelledRows(p, n, u), columns |-> AllColumns,
                 date_values |-> "datetime"]
    /\ now = Now0
    /\ tie_up \in BOOLEAN
    /\ basic_signal = NoSignal
    /\ weighted_signal = NoSignal
    /\ time_weighted_signal = NoSignal
    /\ result = NoResult
    /\ pc = "collect"

\* generators whose thresholds a caller sets high
WideGenerators ==
    { [positive_threshold |-> 80, negative_threshold |-> 80,
       min_articles |-> 5, confidence_weight |-> 3],
      [positive_threshold |-> 100, negative_threshold |-> 20,
       min_articles |-> 2, confidence_weight |-> 0] }

\* a batch given by its label counts, scored by a generator of high thresholds
InitThresholds ==
    /\ fetch = NoFetch
    /\ generator \in WideGenerators
    /\ \E p \in 0 .. MaxPolar, n \in 0 .. MaxPolar, u \in 0 .. MaxNeutral :
           df = [rows |-> LabelledRows(p, n, u), columns |-> AllColumns,
                 date_values |-> "datetime"]
    /\ now = Now0
    /\ tie_up \in BOOLEAN
    /\ basic_signal = NoSignal
    /\ weighted_signal = NoSignal
    /\ time_weighted_signal = NoSignal
    /\ result = NoResult
    /\ pc = "collect"

\* the batch of p positive, n negative and u neutral rows that all have
\* classifier confidence c and publication time a
UniformRows(p, n, u, c, a) ==
    [k \in Kinds |->
        IF k.confidence = c /\ k.published_at = a
        THEN CASE k.label = "positive" -> p
               [] k.label = "negative" -> n
               [] OTHER -> u
        ELSE 0]

\* the column's values: datetimes (or strings pd.to_datetime parses), or
\* values pd.to_datetime raises on
DateValues == {"datetime", "unparseable"}

\* a batch that may lack any of the three columns, or hold unparseable dates
InitColumns ==
    /\ fetch = NoFetch
    /\ generator \in Generators
    /\ \E p \in 0 .. MaxPerLabel, n \in 0 .. MaxPerLabel,
          u \in 0 .. MaxPerLabel, c \in ConfLevels, a \in PublishedAts,
          cols \in SUBSET AllColumns, v \in DateValues :
           /\ DateColumn \notin cols => v = "datetime"
           /\ df = [rows |-> UniformRows(p, n, u, c, a), columns |-> cols,
                    date_values |-> v]
    /\ now = Now0
    /\ tie_up \in BOOLEAN
    /\ basic_signal = NoSignal
    /\ weighted_signal = NoSignal
    /\ time_weighted_signal = NoSignal
    /\ result = NoResult
    /\ pc = "collect"

\* times at which a caller scores the batch: 8.5, 2, 1 and 0.5 days before
\* Now0, and Now0 itself
ClockTimes == {Now0 - 17, Now0 - 4, Now0 - 2, Now0 - 1, Now0}

\* the batch with the given numbers of positive and negative rows published
\* at the later and at the earlier publication time
DatedRows(pos_late, pos_early, neg_late, neg_early) ==
    LET c == CHOOSE x \in ConfLevels : \A y \in ConfLevels : x >= y
        late == CHOOSE x \in PublishedAts : \A y \in PublishedAts : x >= y
    IN  [k \in Kinds |->
            IF k.confidence # c \/ k.label = "neutral" THEN 0
            ELSE IF k.label = "positive"
            THEN (IF k.published_at = late THEN pos_late ELSE pos_early)
            ELSE (IF k.published_at = late THEN neg_late ELSE neg_early)]

\* a batch scored at one of several times
InitClock ==
    /\ fetch = NoFetch
    /\ generator \in Generators
    /\ \E a \in 0 .. MaxPerDate, b \in 0 .. MaxPerDate,
          c \in 0 .. MaxPerDate, e \in 0 .. MaxPerDate :
           df = [rows |-> DatedRows(a, b, c, e), columns |-> AllColumns,
                 date_values |-> "datetime"]
    /\ now \in ClockTimes
    /\ tie_up \in BOOLEAN
    /\ basic_signal = NoSignal
    /\ weighted_signal = NoSignal
    /\ time_weighted_signal = NoSignal
    /\ result = NoResult
    /\ pc = "collect"

\* the classified batch of run_complete_analysis, whatever its columns
InitService ==
    /\ fetch = NoFetch
    /\ generator = DefaultGenerator
    /\ \E p \in 0 .. MaxPerLabel, n \in 0 .. MaxPerLabel,
          u \in 0 .. MaxPerLabel, c \in ConfLevels, a \in PublishedAts,
          cols \in SUBSET AllColumns, v \in DateValues :
           /\ DateColumn \notin cols => v = "datetime"
           /\ df = [rows |-> UniformRows(p, n, u, c, a), columns |-> cols,
                    date_values |-> v]
    /\ now = Now0
    /\ tie_up \in BOOLEAN
    /\ basic_signal = NoSignal
    /\ weighted_signal = NoSignal
    /\ time_weighted_signal = NoSignal
    /\ result = NoResult
    /\ pc = "collect"

\* lists, dictionaries (by their values) and arrays of scalars
FlatContainers ==
    [type : {"list", "dict"}, items : SeqsUpTo(Scalars, MaxItems)]
    \cup [type : {"ndarray"},
          items : SeqsUpTo(NumpyInts \cup NumpyFloats, MaxItems)]

\* a dictionary holding one more level, as the result's sentiment_breakdown
\* and signal_details
NestedContainers ==
    [type : {"dict"}, items : SeqsUpTo(FlatContainers, 1)]

\* a result about to be converted
InitSerialize ==
    /\ fetch = NoFetch
    /\ generator = DefaultGenerator
    /\ df = [rows |-> EmptyRows, columns |-> AllColumns,
             date_values |-> "datetime"]
    /\ now = Now0
    /\ tie_up = FALSE
    /\ basic_signal = NoSignal
    /\ weighted_signal = NoSignal
    /\ time_weighted_signal = NoSignal
    /\ result \in Scalars \cup FlatContainers \cup NestedContainers
    /\ pc = "convert"

\* fetch_company_news called with some max_articles
InitFetch ==
    /\ \E m \in RequestedArticles : fetch = StartFetch(m)
    /\ generator = DefaultGenerator
    /\ df = [rows |-> EmptyRows, columns |-> AllColumns,
             date_values |-> "datetime"]
    /\ now = Now0
    /\ tie_up = FALSE
    /\ basic_signal = NoSignal
    /\ weighted_signal = NoSignal
    /\ time_weighted_signal = NoSignal
    /\ result = NoResult
    /\ pc = "fetch"

\* fetch_company_news past its loop, with some raw articles collected
InitClean ==
    /\ \E s \in SeqsUpTo(ArticleKinds, MaxRaw) :
           fetch = [StartFetch(Len(s)) EXCEPT !.status = "fetched",
                                              !.articles_fetched = Len(s),
                                              !.articles_data = s]
    /\ generator = DefaultGenerator
    /\ df = [rows |-> EmptyRows, columns |-> AllColumns,
             date_values |-> "datetime"]
    /\ now = Now0
    /\ tie_up = FALSE
    /\ basic_signal = NoSignal
    /\ weighted_signal = NoSignal
    /\ time_weighted_signal = NoSignal
    /\ result = NoResult
    /\ pc = "fetch"

\* one more classified article joins the batch
AddObservation ==
    /\ pc = "collect"
    /\ NumRows(df) < MaxArticles
    /\ \E k \in Kinds : df' = [df EXCEPT !.rows[k] = @ + 1]
    /\ UNCHANGED <<fetch, generator, now, tie_up, basic_signal, weighted_signal,
                   time_weighted_signal, result, pc>>

\* if df.empty: return NO_DATA
ReturnNoData ==
    /\ pc = "collect"
    /\ NumRows(df) = 0
    /\ result' = NoDataResult
    /\ pc' = "done"
    /\ UNCHANGED <<fetch, generator, df, now, tie_up, basic_signal, weighted_signal,
                   time_weighted_signal>>

GenerateBasicSignal ==
    /\ pc = "collect"
    /\ basic_signal' = BasicSignal(df, generator, now, tie_up)
    /\ pc' = "basic"
    /\ UNCHANGED <<fetch, generator, df, now, tie_up, weighted_signal,
                   time_weighted_signal, result>>

GenerateWeightedSignal ==
    /\ pc = "basic"
    /\ weighted_signal' = WeightedSignal(df, generator, now, tie_up)
    /\ pc' = "weighted"
    /\ UNCHANGED <<fetch, generator, df, now, tie_up, basic_signal,
                   time_weighted_signal, result>>

GenerateTimeWeightedSignal ==
    /\ pc = "weighted"
    /\ time_weighted_signal' =
           TimeWeightedSignal(df, generator, now, tie_up, RecentDaysDefault)
    /\ df' = CallerBatch(df, TimeWeightedCopy(df))
    /\ pc' = "time_weighted"
    /\ UNCHANGED <<fetch, generator, now, tie_up, basic_signal, weighted_signal,
                   result>>

\* the consensus and the result of run_complete_analysis
Consensus ==
    /\ pc = "time_weighted"
    /\ NumRows(df) > 0
    /\ result' = AnalysisResult(df, basic_signal, weighted_signal,
                                time_weighted_signal)
    /\ pc' = "done"
    /\ UNCHANGED <<fetch, generator, df, now, tie_up, basic_signal, weighted_signal,
                   time_weighted_signal>>

\* later, the caller calls generate_basic_signal on the same batch again
RepeatBasicSignal ==
    /\ pc = "time_weighted"
    /\ \E t \in ClockTimes :
           /\ t > now
           /\ now' = t
           /\ basic_signal' = BasicSignal(df, generator, t, tie_up)
    /\ UNCHANGED <<fetch, generator, df, tie_up, weighted_signal,
                   time_weighted_signal, result, pc>>

\* later, the caller calls generate_weighted_signal on the same batch again
RepeatWeightedSignal ==
    /\ pc = "time_weighted"
    /\ \E t \in ClockTimes :
           /\ t > now
           /\ now' = t
           /\ weighted_signal' = WeightedSignal(df, generator, t, tie_up)
    /\ UNCHANGED <<fetch, generator, df, tie_up, basic_signal,
                   time_weighted_signal, result, pc>>

\* later, the caller calls generate_time_weighted_signal on the same batch
\* again
RepeatTimeWeightedSignal ==
    /\ pc = "time_weighted"
    /\ \E t \in ClockTimes :
           /\ t > now
           /\ now' = t
           /\ time_weighted_signal' =
                  TimeWeightedSignal(df, generator, t, tie_up,
                                     RecentDaysDefault)
    /\ df' = CallerBatch(df, TimeWeightedCopy(df))
    /\ UNCHANGED <<fetch, generator, tie_up, basic_signal, weighted_signal,
                   result, pc>>

\* a component raises before the scorers run: the except branch returns
ComponentRaises ==
    /\ pc = "collect"
    /\ \E error \in ComponentErrors : result' = Caught(error)
    /\ pc' = "done"
    /\ UNCHANGED <<fetch, generator, df, now, tie_up, basic_signal,
                   weighted_signal, time_weighted_signal>>

\* what the scorer called last has left
LastSignal ==
    CASE pc = "basic" -> basic_signal
      [] pc = "weighted" -> weighted_signal
      [] pc = "time_weighted" -> time_weighted_signal
      [] OTHER -> NoSignal

\* the scorer just called has raised: the except branch returns
ScorerRaises ==
    /\ LastSignal.signal = "RAISED"
    /\ result' = Caught(LastSignal.error)
    /\ pc' = "done"
    /\ UNCHANGED <<fetch, generator, df, now, tie_up, basic_signal,
                   weighted_signal, time_weighted_signal>>

\* the next statement of run_complete_analysis runs if nothing was raised
AnalyseBasic == NumRows(df) > 0 /\ GenerateBasicSignal
AnalyseWeighted == basic_signal.signal # "RAISED" /\ GenerateWeightedSignal
AnalyseTimeWeighted ==
    weighted_signal.signal # "RAISED" /\ GenerateTimeWeightedSignal
AnalyseConsensus == time_weighted_signal.signal # "RAISED" /\ Consensus

\* result = convert_to_serializable(result)
ConvertToSerializable ==
    /\ pc = "convert"
    /\ result' = convert_to_serializable(result)
    /\ pc' = "converted"
    /\ UNCHANGED <<fetch, generator, df, now, tie_up, basic_signal,
                   weighted_signal, time_weighted_signal>>

\* while articles_fetched < max_articles: one request and its page
FetchPage ==
    /\ fetch.status = "loop"
    /\ fetch.articles_fetched < fetch.max_articles
    /\ \E response \in Responses : fetch' = Iteration(fetch, response)
    /\ UNCHANGED <<generator, df, now, tie_up, basic_signal, weighted_signal,
                   time_weighted_signal, result, pc>>

\* the while test fails
LeaveLoop ==
    /\ fetch.status = "loop"
    /\ fetch.articles_fetched >= fetch.max_articles
    /\ fetch' = [fetch EXCEPT !.status = "fetched"]
    /\ UNCHANGED <<generator, df, now, tie_up, basic_signal, weighted_signal,
                   time_weighted_signal, result, pc>>

\* the DataFrame is built, cleaned and returned, or an exception leaves
\* fetch_company_news
ReturnDataFrame ==
    /\ fetch.status = "fetched"
    /\ LET out == ToDataFrame(fetch.articles_data)
       IN  fetch' = [fetch EXCEPT !.status = out.status,
                                  !.error = out.error,
                                  !.returned = out.returned]
    /\ UNCHANGED <<generator, df, now, tie_up, basic_signal, weighted_signal,
                   time_weighted_signal, result, pc>>

Next ==
    \/ AddObservation
    \/ ReturnNoData
    \/ GenerateBasicSignal
    \/ GenerateWeightedSignal
    \/ GenerateTimeWeightedSignal
    \/ Consensus

NextScorers ==
    \/ AddObservation
    \/ GenerateBasicSignal
    \/ GenerateWeightedSignal
    \/ GenerateTimeWeightedSignal

NextBasic == GenerateBasicSignal

NextCalls ==
    \/ GenerateBasicSignal
    \/ GenerateWeightedSignal
    \/ GenerateTimeWeightedSignal

NextClock ==
    \/ GenerateBasicSignal
    \/ GenerateWeightedSignal
    \/ GenerateTimeWeightedSignal
    \/ RepeatBasicSignal
    \/ RepeatWeightedSignal
    \/ RepeatTimeWeightedSignal

NextService ==
    \/ ComponentRaises
    \/ ReturnNoData
    \/ AnalyseBasic
    \/ AnalyseWeighted
    \/ AnalyseTimeWeighted
    \/ AnalyseConsensus
    \/ ScorerRaises

NextFetch ==
    \/ FetchPage
    \/ LeaveLoop
    \/ ReturnDataFrame

\* run_complete_analysis on the batches of at most MaxArticles rows
Spec == Init /\ [][Next]_vars

\* the three scorers, called in turn by any caller, any generator
SpecScorers == InitScorers /\ [][NextScorers]_vars

\* generate_basic_signal on batches given by their label counts
SpecBasic == InitBasic /\ [][NextBasic]_vars

\* the three scorers on label-count batches, thresholds set high
SpecThresholds == InitThresholds /\ [][NextCalls]_vars

\* the three scorers on batches with missing columns or unparseable dates
SpecColumns == InitColumns /\ [][NextCalls]_vars

\* the three scorers called, and called again later, on the same batch
SpecClock == InitClock /\ [][NextClock]_vars

\* run_complete_analysis with its except branch, on batches of any columns
SpecService == InitService /\ [][NextService]_vars

\* convert_to_serializable on nested values
SpecSerialize == InitSerialize /\ [][ConvertToSerializable]_vars

\* fetch_company_news against every sequence of API answers
SpecFetch == InitFetch /\ [][NextFetch]_vars

\* the end of fetch_company_news (DataFrame, clean_data) on raw articles
SpecClean == InitClean /\ [][ReturnDataFrame]_vars

----------------------------------------------------------------------------
(* Properties *)

positive_count == CountOf(df, "positive")
negative_count == CountOf(df, "negative")
neutral_count == CountOf(df, "neutral")
total_count == NumRows(df)

BasicDone == pc \in {"basic", "weighted", "time_weighted", "done"}
WeightedDone == pc \in {"weighted", "time_weighted", "done"}
TimeWeightedDone == pc \in {"time_weighted", "done"}
Analysed == pc = "done" /\ result.success = TRUE

StageSignals ==
    <<basic_signal.signal, weighted_signal.signal, time_weighted_signal.signal>>

\* C1: whenever the batch has fewer rows than min_articles (the empty batch
\* included), whatever its labels, generate_basic_signal returns
\* INSUFFICIENT_DATA with confidence exactly 0.0.
C1_InsufficientBelowMinimum ==
    (BasicDone /\ total_count < generator.min_articles)
        => /\ basic_signal.signal = "INSUFFICIENT_DATA"
           /\ basic_signal.confidence = 0

\* C1 witness: scenario D, 1 positive / 1 negative / 1 neutral under the
\* default generator, has been scored INSUFFICIENT_DATA.
C1_Witness ==
    /\ pc = "basic"
    /\ generator = DefaultGenerator
    /\ positive_count = 1 /\ negative_count = 1 /\ neutral_count = 1
    /\ basic_signal.signal = "INSUFFICIENT_DATA"

\* C2: INSUFFICIENT_DATA is terminal: when the basic scorer returns
\* INSUFFICIENT_DATA, the weighted and the time-weighted scorer on the same
\* batch return INSUFFICIENT_DATA with confidence 0.0 too.
C2_InsufficientIsTerminal ==
    (TimeWeightedDone /\ basic_signal.signal = "INSUFFICIENT_DATA")
        => /\ weighted_signal.signal = "INSUFFICIENT_DATA"
           /\ weighted_signal.confidence = 0
           /\ time_weighted_signal.signal = "INSUFFICIENT_DATA"
           /\ time_weighted_signal.confidence = 0

OnePolarity ==
    \/ positive_count > 0 /\ negative_count = 0
    \/ negative_count > 0 /\ positive_count = 0

\* C4 as stated: with at least min_articles rows and exactly one polarity
\* present the basic scorer returns BUY (positive) or SELL (negative) with a
\* rounded confidence in (0.7, 0.9].
C4_OnePolarityConfidenceAbove700 ==
    (BasicDone /\ total_count >= generator.min_articles /\ OnePolarity)
        => /\ basic_signal.signal = IF positive_count > 0 THEN "BUY" ELSE "SELL"
           /\ basic_signal.confidence > 700
           /\ basic_signal.confidence <= 900

\* C4 amended: with at least min_articles rows and exactly one polarity
\* present the basic scorer returns BUY (positive) or SELL (negative) with a
\* rounded confidence in [0.7, 0.9]; it is strictly above 0.7 when the batch
\* has fewer than 400 rows per row of that polarity.
C4_OnePolarityConfidenceFrom700 ==
    (BasicDone /\ total_count >= generator.min_articles /\ OnePolarity)
        => /\ basic_signal.signal = IF positive_count > 0 THEN "BUY" ELSE "SELL"
           /\ basic_signal.confidence >= 700
           /\ basic_signal.confidence <= 900
           /\ (total_count < 400 * (positive_count + negative_count)
                  => basic_signal.confidence > 700)

\* C4 witness: one positive row among more than 400 neutral ones has been
\* scored BUY with confidence exactly 0.7.
C4_Witness ==
    /\ pc = "basic"
    /\ positive_count = 1 /\ negative_count = 0
    /\ total_count >= generator.min_articles
    /\ basic_signal.signal = "BUY"
    /\ basic_signal.confidence = 700

BuyTest == 10 * positive_count >= generator.positive_threshold * negative_count
SellTest == 10 * negative_count >= generator.negative_threshold * positive_count
Counts(p, n, u) ==
    positive_count = p /\ negative_count = n /\ neutral_count = u

\* C5: with at least min_articles rows, positive > 0 and negative > 0, the
\* basic scorer returns BUY if positive / negative >= positive_threshold,
\* otherwise SELL if negative / positive >= negative_threshold, otherwise
\* HOLD; BUY wins when both tests hold, and under the default generator
\* 15/3/2 gives BUY, 2/14/4 gives SELL and 8/7/5 gives HOLD.
C5_RatioDecisionOrder ==
    (BasicDone /\ total_count >= generator.min_articles
               /\ positive_count > 0 /\ negative_count > 0)
        => /\ basic_signal.signal =
                  IF BuyTest THEN "BUY" ELSE IF SellTest THEN "SELL" ELSE "HOLD"
           /\ (generator = DefaultGenerator /\ Counts(15, 3, 2))
                  => basic_signal.signal = "BUY"
           /\ (generator = DefaultGenerator /\ Counts(2, 14, 4))
                  => basic_signal.signal = "SELL"
           /\ (generator = DefaultGenerator /\ Counts(8, 7, 5))
                  => basic_signal.signal = "HOLD"

\* C5 witness: both ratio tests hold and the batch has been scored BUY.
C5_Witness ==
    /\ pc = "basic"
    /\ total_count >= generator.min_articles
    /\ positive_count > 0 /\ negative_count > 0
    /\ BuyTest /\ SellTest
    /\ basic_signal.signal = "BUY"

\* C6: with at least min_articles rows, none positive and none negative, the
\* basic scorer returns HOLD with confidence exactly 0.4.
C6_AllNeutralHold ==
    (BasicDone /\ total_count >= generator.min_articles
               /\ positive_count = 0 /\ negative_count = 0)
        => /\ basic_signal.signal = "HOLD"
           /\ basic_signal.confidence = 400

\* C6 witness: an all-neutral batch of at least min_articles rows has been
\* scored.
C6_Witness ==
    /\ pc = "basic"
    /\ total_count >= generator.min_articles
    /\ neutral_count = total_count
    /\ basic_signal.signal = "HOLD"

NumberOf(s) == Cardinality({i \in 1 .. 3 : StageSignals[i] = s})

\* C7: the consensus signal is the majority vote over the three stage
\* signals: BUY if at least two are BUY, SELL if at least two are SELL, HOLD
\* otherwise; two BUY and one SELL give BUY, a BUY / SELL / HOLD split HOLD.
C7_ConsensusIsMajority ==
    Analysed
        => /\ NumberOf("BUY") >= 2 => result.signal = "BUY"
           /\ NumberOf("SELL") >= 2 => result.signal = "SELL"
           /\ (NumberOf("BUY") < 2 /\ NumberOf("SELL") < 2)
                  => result.signal = "HOLD"
           /\ (NumberOf("BUY") = 2 /\ NumberOf("SELL") = 1)
                  => result.signal = "BUY"
           /\ (NumberOf("BUY") = 1 /\ NumberOf("SELL") = 1 /\ NumberOf("HOLD") = 1)
                  => result.signal = "HOLD"

\* C7 witness: the three stages have split BUY / SELL / HOLD and the
\* consensus is HOLD.
C7_Witness ==
    /\ Analysed
    /\ NumberOf("BUY") = 1 /\ NumberOf("SELL") = 1 /\ NumberOf("HOLD") = 1
    /\ result.signal = "HOLD"

\* C8: INSUFFICIENT_DATA is an ordinary vote: when two or more stages return
\* INSUFFICIENT_DATA the consensus is HOLD, and the signal returned by
\* run_complete_analysis is never INSUFFICIENT_DATA.
C8_InsufficientDataIsOrdinaryVote ==
    (pc = "done")
        => /\ result.signal # "INSUFFICIENT_DATA"
           /\ (Analysed /\ NumberOf("INSUFFICIENT_DATA") >= 2)
                  => result.signal = "HOLD"

\* C8 witness: all three stages returned INSUFFICIENT_DATA and the consensus
\* is HOLD.
C8_Witness ==
    /\ Analysed
    /\ NumberOf("INSUFFICIENT_DATA") = 3
    /\ result.signal = "HOLD"

StageConfidenceSum ==
    basic_signal.confidence + weighted_signal.confidence
        + time_weighted_signal.confidence

\* C9: the consensus confidence is exactly the mean of the three stage
\* confidences, (basic + weighted + time-weighted) / 3, not rounded.
C9_ConfidenceIsExactMean ==
    Analysed => 3 * result.confidence[1] = StageConfidenceSum * result.confidence[2]

\* C9 witness: an analysed batch whose stage confidences do not sum to a
\* multiple of 0.003, so that the mean has more than three decimals.
C9_Witness ==
    /\ Analysed
    /\ StageConfidenceSum % 3 # 0
    /\ NumberOf("INSUFFICIENT_DATA") = 0

\* C10: the confidence returned by the weighted scorer and by the
\* time-weighted scorer never exceeds 0.95.
C10_ConfidenceAtMost950 ==
    /\ WeightedDone => weighted_signal.confidence <= 950
    /\ TimeWeightedDone => time_weighted_signal.confidence <= 950

\* C10 witness: a basic confidence of 0.9 has been bumped by the weighted
\* scorer to 0.95 and bumped again by the time-weighted scorer, still 0.95.
C10_Witness ==
    /\ pc = "time_weighted"
    /\ basic_signal.confidence = 900
    /\ weighted_signal.confidence = 950
    /\ time_weighted_signal.reason = "time_weighted_buy"
    /\ time_weighted_signal.confidence = 950

\* C11: every result of the three scorers, whatever the thresholds, has a
\* rounded confidence between 0 and 0.95
C11_ConfidenceInUnitRange ==
    /\ BasicDone => basic_signal.confidence \in 0 .. 950
    /\ WeightedDone => weighted_signal.confidence \in 0 .. 950
    /\ TimeWeightedDone => time_weighted_signal.confidence \in 0 .. 950

positive_weight == WeightOf(df, "positive")
negative_weight == WeightOf(df, "negative")
total_weight == positive_weight + negative_weight + WeightOf(df, "neutral")

\* the weighted scorer got past its fallbacks
WeightedScored ==
    /\ WeightedDone
    /\ total_count >= generator.min_articles
    /\ total_weight > 0

\* weighted_positive_pct > weighted_negative_pct * positive_threshold
WeightedBuyTest ==
    RatGT(<<10 * 100 * positive_weight, total_weight>>,
          <<100 * negative_weight * generator.positive_threshold, total_weight>>)

\* weighted_negative_pct > weighted_positive_pct * negative_threshold
WeightedSellTest ==
    RatGT(<<10 * 100 * negative_weight, total_weight>>,
          <<100 * positive_weight * generator.negative_threshold, total_weight>>)

\* C12: on a batch of at least min_articles rows with non-zero total weight
\* the weighted signal is BUY if the weighted positive percentage strictly
\* exceeds the weighted negative one times positive_threshold, else SELL on
\* the mirrored strict test, else the basic signal and confidence unchanged,
\* whatever the basic decision was
C12_WeightedOverride ==
    WeightedScored =>
        IF WeightedBuyTest THEN weighted_signal.signal = "BUY"
        ELSE IF WeightedSellTest THEN weighted_signal.signal = "SELL"
        ELSE /\ weighted_signal.signal = basic_signal.signal
             /\ weighted_signal.confidence = basic_signal.confidence

\* a basic BUY that the weighted scorer turns into SELL
C12_Witness ==
    /\ WeightedScored
    /\ basic_signal.signal = "BUY"
    /\ weighted_signal.signal = "SELL"

\* C13: whenever the weighted BUY or SELL test holds, the weighted confidence
\* is min(0.95, basic confidence + confidence_weight * 0.2), also when the
\* basic signal was that signal already, and the reason is replaced only when
\* the signal changed
C13_BumpAlwaysReasonOnChange ==
    (WeightedScored /\ (WeightedBuyTest \/ WeightedSellTest)) =>
        /\ weighted_signal.confidence =
               Min(950, basic_signal.confidence
                        + 20 * generator.confidence_weight)
        /\ weighted_signal.reason =
               IF weighted_signal.signal = basic_signal.signal
               THEN basic_signal.reason
               ELSE IF WeightedBuyTest THEN "weighted_buy"
               ELSE "weighted_sell"

\* a basic BUY confirmed by the weighted test: higher confidence, same reason
C13_Witness ==
    /\ WeightedScored
    /\ WeightedBuyTest
    /\ basic_signal.signal = "BUY"
    /\ weighted_signal.confidence > basic_signal.confidence
    /\ weighted_signal.reason = basic_signal.reason

\* what the caller gets from a call, the time of the call aside
Outcome(s) ==
    IF s.signal = "RAISED" THEN s
    ELSE [signal |-> s.signal, confidence |-> s.confidence,
          reason |-> s.reason, details |-> s.details]

\* C14: without the confidence column, or with total confidence weight 0,
\* the weighted scorer returns the basic result: same signal, confidence,
\* reason and details
C14_WeightedFallsBackToBasic ==
    (WeightedDone /\ (ConfidenceColumn \notin df.columns \/ total_weight = 0))
        => Outcome(weighted_signal) = Outcome(basic_signal)

\* a batch without the confidence column, scored BUY by both
C14_Witness ==
    /\ WeightedDone
    /\ ConfidenceColumn \notin df.columns
    /\ basic_signal.signal = "BUY"
    /\ weighted_signal.signal = "BUY"
    /\ weighted_signal.details = basic_signal.details

time_weighted_positive == TimeWeightOf(df, "positive", now, RecentDaysDefault)
time_weighted_negative == TimeWeightOf(df, "negative", now, RecentDaysDefault)
total_time_weight ==
    time_weighted_positive + time_weighted_negative
    + TimeWeightOf(df, "neutral", now, RecentDaysDefault)

\* the time-weighted scorer got past its fallbacks
TimeWeightedScored ==
    /\ TimeWeightedDone
    /\ AllColumns \subseteq df.columns
    /\ df.date_values = "datetime"
    /\ total_time_weight > 0

\* C15: with valid timestamps and non-zero total time weight the
\* time-weighted scorer compares the time-weighted sums themselves: BUY with
\* confidence min(0.95, weighted confidence + 0.1) if the positive sum
\* exceeds the negative one times positive_threshold, else SELL with the
\* same bump on the mirrored test, else the weighted signal, confidence and
\* reason unchanged
C15_TimeWeightedOverride ==
    TimeWeightedScored =>
        IF 10 * time_weighted_positive
               > time_weighted_negative * generator.positive_threshold
        THEN /\ time_weighted_signal.signal = "BUY"
             /\ time_weighted_signal.confidence
                    = Min(950, weighted_signal.confidence + 100)
        ELSE IF 10 * time_weighted_negative
                    > time_weighted_positive * generator.negative_threshold
        THEN /\ time_weighted_signal.signal = "SELL"
             /\ time_weighted_signal.confidence
                    = Min(950, weighted_signal.confidence + 100)
        ELSE /\ time_weighted_signal.signal = weighted_signal.signal
             /\ time_weighted_signal.confidence = weighted_signal.confidence
             /\ time_weighted_signal.reason = weighted_signal.reason

\* a weighted HOLD that recency turns into SELL, 0.1 more confident
C15_Witness ==
    /\ TimeWeightedScored
    /\ weighted_signal.signal = "HOLD"
    /\ time_weighted_signal.signal = "SELL"
    /\ time_weighted_signal.confidence = weighted_signal.confidence + 100

\* max(0, floor((t - published_at) in days)) for a call at time t
AgeDays(k, t) ==
    IF k.published_at >= t THEN 0 ELSE (t - k.published_at) \div 2

\* 2.0 if ageDays <= recentDays, 1.0 otherwise
AgeWeight(k, t) == IF AgeDays(k, t) <= RecentDaysDefault THEN 2 ELSE 1

\* the sum of the age weights of the rows of a label
AgeWeightSum(labels, t) ==
    SumOver({k \in Kinds : k.label \in labels},
            [k \in Kinds |-> df.rows[k] * AgeWeight(k, t)])

\* C16: each row's age is max(0, floor of the days since publication) and
\* its weight 2.0 if the age is at most recent_days, 1.0 otherwise; future
\* dated and same-day rows weigh 2.0 for every recent_days >= 0, and the
\* reported recent count is the number of rows of weight 2.0
C16_RecencyWeights ==
    (TimeWeightedDone /\ total_count > 0) =>
        LET t == time_weighted_signal.timestamp
            d == time_weighted_signal.details
        IN  /\ d.articles_in_recent_period =
                   SumOver({k \in Kinds : AgeWeight(k, t) = 2}, df.rows)
            /\ d.time_weighted_positive_percentage =
                   <<100 * AgeWeightSum({"positive"}, t),
                     AgeWeightSum(Labels, t)>>
            /\ d.time_weighted_negative_percentage =
                   <<100 * AgeWeightSum({"negative"}, t),
                     AgeWeightSum(Labels, t)>>
            /\ \A k \in Kinds, r \in 0 .. RecentDaysDefault :
                   k.published_at >= t - 1 => TimeWeight(k, t, r) = 2

\* a batch with a row dated more than recent_days into the future and a
\* positive and a negative row, all counted as recent
C16_Witness ==
    /\ TimeWeightedDone
    /\ positive_count > 0
    /\ negative_count > 0
    /\ \E k \in Kinds :
           /\ df.rows[k] > 0
           /\ k.published_at >
                  time_weighted_signal.timestamp + 2 * RecentDaysDefault
    /\ time_weighted_signal.details.articles_in_recent_period = total_count

\* C17: when the date column is missing or its values fail to normalise,
\* the time-weighted scorer returns exactly the weighted result for the
\* batch, and the caller sees no failure
C17_TimeWeightedFallsBackToWeighted ==
    (TimeWeightedDone
     /\ (DateColumn \notin df.columns \/ df.date_values = "unparseable"))
        => /\ Outcome(time_weighted_signal) = Outcome(weighted_signal)
           /\ LabelColumn \in df.columns
                  => time_weighted_signal.signal # "RAISED"

\* a batch of unparseable dates whose weighted SELL is returned as it is
C17_Witness ==
    /\ TimeWeightedDone
    /\ df.date_values = "unparseable"
    /\ weighted_signal.signal = "SELL"
    /\ weighted_signal.reason = "weighted_sell"
    /\ Outcome(time_weighted_signal) = Outcome(weighted_signal)

\* the same signal and confidence
SameAnswer(first, second) ==
    /\ first.signal = second.signal
    /\ first.confidence = second.confidence

\* a step in which a scorer is called again on the same batch
SecondCall == pc = "time_weighted" /\ pc' = "time_weighted"

\* C18: a scorer called twice on the same batch with the same configuration
\* answers with the same signal and confidence, whenever the two calls are
\* made (stated for the batches of at least min_articles rows)
C18_Idempotent ==
    [][(SecondCall /\ total_count >= generator.min_articles) =>
           /\ SameAnswer(basic_signal, basic_signal')
           /\ SameAnswer(weighted_signal, weighted_signal')
           /\ SameAnswer(time_weighted_signal, time_weighted_signal')]_vars

\* no row is within recent_days of the one call and past them at the other
SameRecency ==
    \/ total_count = 0
    \/ \A k \in Kinds :
           df.rows[k] > 0 =>
               AgeWeight(k, time_weighted_signal.timestamp)
                   = AgeWeight(k, now')

\* C18 (amended): the basic and the weighted scorer answer a second call
\* with the same signal and confidence whenever it is made; the time-weighted
\* scorer does so when no row's age moves across recent_days between the
\* two calls
C18_IdempotentUpToRecency ==
    [][SecondCall =>
           /\ SameAnswer(basic_signal, basic_signal')
           /\ SameAnswer(weighted_signal, weighted_signal')
           /\ SameRecency =>
                  SameAnswer(time_weighted_signal, time_weighted_signal')]_vars

\* the time-weighted scorer has been called again, later than the weighted
\* one, on a batch large enough to be scored
C18_Witness ==
    /\ pc = "time_weighted"
    /\ total_count >= generator.min_articles
    /\ time_weighted_signal.timestamp > weighted_signal.timestamp

\* every key of `first` is a key of `second`, with the same value
Included(first, second) ==
    \A key \in DOMAIN first :
        key \in DOMAIN second /\ second[key] = first[key]

\* C19: every key and value of the basic details is in the weighted details
\* unchanged, and every key and value of the weighted details is in the
\* time-weighted details unchanged: later stages only add keys
C19_DetailsAreCumulative ==
    /\ WeightedDone =>
           Included(basic_signal.details, weighted_signal.details)
    /\ TimeWeightedDone =>
           Included(weighted_signal.details, time_weighted_signal.details)

\* three stages, each with more keys than the one before
C19_Witness ==
    /\ TimeWeightedDone
    /\ DOMAIN basic_signal.details # {}
    /\ DOMAIN basic_signal.details # DOMAIN weighted_signal.details
    /\ DOMAIN weighted_signal.details # DOMAIN time_weighted_signal.details
    /\ Included(basic_signal.details, time_weighted_signal.details)

\* C20: no scorer changes its input: after a call, fallback paths included,
\* the caller's batch has the rows, columns and values it had before, and
\* the results of the earlier stages are as they were
C20_ScorersLeaveInputAlone ==
    [][/\ df' = df
       /\ BasicDone => basic_signal' = basic_signal
       /\ WeightedDone => weighted_signal' = weighted_signal]_vars

\* the time-weighted scorer has computed its weights, and the caller's batch
\* has no column of them
C20_Witness ==
    /\ TimeWeightedDone
    /\ df.columns = AllColumns
    /\ df.date_values = "datetime"
    /\ total_count >= generator.min_articles
    /\ time_weighted_signal.reason = "time_weighted_buy"
    /\ "articles_in_recent_period" \in DOMAIN time_weighted_signal.details

\* C21: without the label column each of the three scorers raises the
\* ValueError of generate_basic_signal, whichever other columns are present
C21_MissingLabelRaisesValueError ==
    LabelColumn \notin df.columns =>
        /\ BasicDone => basic_signal = Raised("ValueError")
        /\ WeightedDone => weighted_signal = Raised("ValueError")
        /\ TimeWeightedDone => time_weighted_signal = Raised("ValueError")

\* a stage of run_complete_analysis has raised
StageFailed ==
    \/ "RAISED" \in {basic_signal.signal, weighted_signal.signal,
                     time_weighted_signal.signal}
    \/ total_count > 0 /\ basic_signal = NoSignal

RECURSIVE IsPlainJson(_)
IsPlainJson(obj) ==
    IF obj.type \in {"dict", "list"}
    THEN \A i \in DOMAIN obj.items : IsPlainJson(obj.items[i])
    ELSE obj.type \in {"int", "float", "str", "None"} /\ ~obj.nan

\* C23: convert_to_serializable turns every numpy integer or float into a
\* plain one and every NaN or missing value, whatever its numeric type and
\* nesting depth, into None
C23_NoNumpyNoNaN ==
    pc = "converted" => IsPlainJson(result)

\* fetch_company_news has been called
Fetching == fetch.status # "idle"

\* C24: fetch_company_news never collects more than max_articles raw
\* articles, whatever pages the API sends and also for max_articles <= 0
C24_AtMostMaxArticles ==
    Fetching => Len(fetch.articles_data) <= fetch.max_articles

\* C24 (amended): fetch_company_news never collects more than max_articles
\* raw articles, and none when max_articles <= 0
C24_AtMostMaxArticlesOrNone ==
    Fetching =>
        /\ Len(fetch.articles_data) <= Max(0, fetch.max_articles)
        /\ fetch.articles_fetched = Len(fetch.articles_data)

\* one article asked for, one collected, and the loop is over
C24_Witness ==
    /\ fetch.status = "fetched"
    /\ fetch.max_articles = 1
    /\ Len(fetch.articles_data) = 1

\* C25: after clean_data no two returned articles have the same title, and
\* no returned article has a missing, empty or whitespace-only title or
\* description, or '[Removed]' in either field
C25_CleanedTitlesDistinct ==
    fetch.status = "returned" =>
        LET s == fetch.returned
        IN  /\ \A i, j \in DOMAIN s : i # j => s[i].title # s[j].title
            /\ \A i \in DOMAIN s :
                   /\ s[i].title \notin {Missing, "", "  ", "[Removed]"}
                   /\ s[i].description \notin {Missing, "", "  ", "[Removed]"}

\* C26: HOLD and INSUFFICIENT_DATA originate in the basic scorer only: the
\* weighted signal is BUY, SELL or the basic signal, the time-weighted signal
\* is BUY, SELL or the weighted signal, so a HOLD of a later stage is a HOLD
\* of the basic scorer on the same batch
C26_HoldOnlyFromBasic ==
    /\ WeightedDone =>
           /\ weighted_signal.signal
                  \in {"BUY", "SELL", basic_signal.signal}
           /\ weighted_signal.signal = "HOLD"
                  => basic_signal.signal = "HOLD"
    /\ TimeWeightedDone =>
           /\ time_weighted_signal.signal
                  \in {"BUY", "SELL", weighted_signal.signal}
           /\ time_weighted_signal.signal = "HOLD"
                  => basic_signal.signal = "HOLD"

\* a HOLD that went through all three stages
C26_Witness ==
    /\ TimeWeightedDone
    /\ basic_signal.signal = "HOLD"
    /\ weighted_signal.signal = "HOLD"
    /\ time_weighted_signal.signal = "HOLD"

\* C27: with confidence_weight >= 0 the confidence never decreases from the
\* basic to the weighted to the time-weighted stage, so their mean lies
\* between the basic and the time-weighted confidence
C27_ConfidenceNeverDecreases ==
    generator.confidence_weight >= 0 =>
        /\ WeightedDone =>
               basic_signal.confidence <= weighted_signal.confidence
        /\ TimeWeightedDone =>
               LET avg_confidence ==
                       AverageConfidence(basic_signal.confidence,
                                         weighted_signal.confidence,
                                         time_weighted_signal.confidence)
               IN  /\ weighted_signal.confidence
                          <= time_weighted_signal.confidence
                   /\ ~RatGT(<<basic_signal.confidence, 1>>, avg_confidence)
                   /\ ~RatGT(avg_confidence,
                             <<time_weighted_signal.confidence, 1>>)

\* each later stage was strictly more confident than the one before
C27_Witness ==
    /\ TimeWeightedDone
    /\ basic_signal.confidence < weighted_signal.confidence
    /\ weighted_signal.confidence < time_weighted_signal.confidence

\* C28: with the default thresholds 2.0 / 2.0 every HOLD of the basic scorer
\* has a confidence of at least 0.4 and at most 0.5, so the unclamped HOLD
\* formula is never negative there
C28_DefaultHoldConfidence ==
    (/\ BasicDone
     /\ generator.positive_threshold = 20
     /\ generator.negative_threshold = 20
     /\ basic_signal.signal = "HOLD") =>
        /\ basic_signal.confidence >= 400
        /\ basic_signal.confidence <= 500

\* a HOLD on a batch with more positive than negative rows
C28_Witness ==
    /\ BasicDone
    /\ generator = DefaultGenerator
    /\ basic_signal.signal = "HOLD"
    /\ positive_count > negative_count
    /\ negative_count > 0
    /\ basic_signal.confidence < 500

\* C29: every iteration of the pagination loop either leaves the loop or
\* collects at least one more article, and the articles collected never
\* exceed max_articles
C29_IterationsMakeProgress ==
    [][(fetch.status = "loop" /\ fetch' # fetch) =>
           /\ \/ fetch'.status = "fetched"
              \/ fetch'.articles_fetched > fetch.articles_fetched
           /\ fetch'.articles_fetched <= Max(0, fetch.max_articles)]_vars

\* the loop is about to ask for a third page
C29_Witness ==
    /\ fetch.status = "loop"
    /\ fetch.page = 3
    /\ fetch.articles_fetched < fetch.max_articles

\* C30: fetch_company_news returns a DataFrame, possibly empty, whatever
\* the API answers: no exception leaves it, also when cleaning removes
\* every fetched article
C30_NoExceptionLeavesFetch ==
    Fetching => fetch.status # "raised"

====
